---- MODULE Spec2Model ----
(***************************************************************************)
(* SEC EDGAR Fraud Analyzer - web client (app.js, version 2.2.0).          *)
(*                                                                         *)
(* The client keeps a handful of globals (apiBaseUrl, currentData,         *)
(* isConnected, isDemoMode, requestTimeout, analysisHistory), the DOM      *)
(* (loading indicator, results panel and its tabs) and localStorage.  The  *)
(* analysis form is an input of analyzeCompany, the only handler that      *)
(* reads it.  Analyses are asynchronous: a demo analysis finishes in a     *)
(* 1.5 s timer, a server analysis when the /api/analyze fetch settles.     *)
(*                                                                         *)
(* Conventions                                                             *)
(*   - a text is a sequence of strings; what the user types is a sequence  *)
(*     of one-character strings, so trim / toUpperCase / includes are      *)
(*     computed character by character;                                    *)
(*   - a fractional number is held in thousandths (-2.22 is -2220,         *)
(*     0.85 is 850); f_score, filings_analyzed and counts are plain        *)
(*     integers; dollar amounts of the demo filings are in millions;       *)
(*   - a JavaScript object is a record, an absent property is a field      *)
(*     that is not in the record's DOMAIN.                                 *)
(***************************************************************************)
EXTENDS Integers, Sequences, FiniteSets, TLC

\* ------------------------------------------------------------------------
\* Bounds of the model
\* ------------------------------------------------------------------------
MaxRuns == 1          \* analyses started in one behaviour of Spec
MaxHealth == 1        \* health checks in flight at the same time
MaxSessionRuns == 2   \* analyses started in one behaviour of SpecSession, SpecTools
MaxCalls == 1         \* search, filings and cache requests in flight at the same time

\* ------------------------------------------------------------------------
\* JavaScript values
\* ------------------------------------------------------------------------
APP_VERSION == "2.2.0"

Null == [isNull |-> TRUE]
EmptyObj == [x \in {} |-> TRUE]

Has(obj, f) == f \in DOMAIN obj

\* obj.f || {}
ObjOrEmpty(obj, f) == IF Has(obj, f) THEN obj[f] ELSE EmptyObj

\* obj.f || dflt, for a number-valued f (0 is falsy)
NumOr(obj, f, dflt) == IF Has(obj, f) /\ obj[f] # 0 THEN obj[f] ELSE dflt

\* obj.f || dflt, for a string/text-valued f ('' is falsy)
TextOr(obj, f, dflt) == IF Has(obj, f) /\ obj[f] # <<>> THEN obj[f] ELSE dflt

\* obj.f > c, obj.f < c, ... : every comparison with undefined is false
Gt(obj, f, c) == Has(obj, f) /\ obj[f] > c
Lt(obj, f, c) == Has(obj, f) /\ obj[f] < c
Ge(obj, f, c) == Has(obj, f) /\ obj[f] >= c
Le(obj, f, c) == Has(obj, f) /\ obj[f] <= c

\* What a template literal or a CSV cell shows for a value
ShowNum(n) == [kind |-> "number", n |-> n]
ShowText(t) == [kind |-> "text", t |-> t]
ShowUndefined == [kind |-> "text", t |-> <<"undefined">>]

\* Number.prototype.toFixed on a value held in thousandths: the result is
\* the nearest multiple of 10^(3-digits) thousandths, ties to the larger
\* magnitude; a negative value is formatted as "-" followed by its magnitude.
RoundDiv(v, d) == IF v >= 0 THEN (v + d \div 2) \div d ELSE 0 - ((d \div 2 - v) \div d)

\* x.toFixed(2): the number of hundredths shown
ToFixed2(v) == [kind |-> "fixed2", hundredths |-> RoundDiv(v, 10)]

\* (x * 100).toFixed(0) + '%': the whole percentage shown
ToPercent(v) == [kind |-> "percent", pct |-> RoundDiv(v, 10)]
NaNPercent == [kind |-> "percent-NaN"]

\* ------------------------------------------------------------------------
\* Strings
\* ------------------------------------------------------------------------
LowerChars == <<"a","b","c","d","e","f","g","h","i","j","k","l","m",
                "n","o","p","q","r","s","t","u","v","w","x","y","z">>
UpperChars == <<"A","B","C","D","E","F","G","H","I","J","K","L","M",
                "N","O","P","Q","R","S","T","U","V","W","X","Y","Z">>

UpperChar(c) ==
    IF \E i \in 1..26 : LowerChars[i] = c
    THEN UpperChars[CHOOSE i \in 1..26 : LowerChars[i] = c]
    ELSE c

ToUpperCase(s) == [i \in 1..Len(s) |-> UpperChar(s[i])]

LowerChar(c) ==
    IF \E i \in 1..26 : UpperChars[i] = c
    THEN LowerChars[CHOOSE i \in 1..26 : UpperChars[i] = c]
    ELSE c

ToLowerCase(s) == [i \in 1..Len(s) |-> LowerChar(s[i])]

RECURSIVE TrimStart(_)
TrimStart(s) == IF s # <<>> /\ Head(s) = " " THEN TrimStart(Tail(s)) ELSE s

RECURSIVE TrimEnd(_)
TrimEnd(s) ==
    IF s # <<>> /\ s[Len(s)] = " " THEN TrimEnd(SubSeq(s, 1, Len(s) - 1)) ELSE s

Trim(s) == TrimEnd(TrimStart(s))

Includes(s, sub) ==
    \E i \in 1..(Len(s) - Len(sub) + 1) : SubSeq(s, i, i + Len(sub) - 1) = sub

EndsWith(s, suffix) ==
    /\ Len(s) >= Len(suffix)
    /\ SubSeq(s, Len(s) - Len(suffix) + 1, Len(s)) = suffix

ENRON == <<"E","N","R","O","N">>
ENRON_CIK == <<"0","0","0","1","0","2","4","4","0","1">>

\* ------------------------------------------------------------------------
\* Demo Data Generator
\* ------------------------------------------------------------------------
ENRON_RED_FLAGS == <<
    [type |-> "EARNINGS_MANIPULATION",
     title |-> "Beneish M-Score Above Threshold",
     description |-> "M-Score of -1.42 exceeds the -2.22 threshold, indicating likely earnings manipulation."],
    [type |-> "BANKRUPTCY_RISK",
     title |-> "Altman Z-Score in Distress Zone",
     description |-> "Z-Score of 1.25 indicates high probability of bankruptcy within 2 years."],
    [type |-> "WEAK_FUNDAMENTALS",
     title |-> "Low Piotroski F-Score",
     description |-> "F-Score of 2 indicates weak financial fundamentals."],
    [type |-> "FRAUD_TRIANGLE",
     title |-> "High Fraud Triangle Risk",
     description |-> "Multiple fraud risk factors detected: high pressure, opportunity, and rationalization scores."],
    [type |-> "BENFORD_ANOMALY",
     title |-> "Benford's Law Deviation",
     description |-> "Significant deviation (8.5%) from expected digit distribution in financial figures."] >>

\* isEnronId without the comparison with Enron's CIK
isEnronId_nameOnly(identifier) == Includes(ToUpperCase(identifier), ENRON)

isEnronId(identifier) ==
    Includes(ToUpperCase(identifier), ENRON) \/ identifier = ENRON_CIK

demoCompany(identifier, isEnron) ==
    [ name |-> IF isEnron THEN <<"Enron Corporation">> ELSE identifier \o <<" Inc.">>,
      ticker |-> IF isEnron THEN <<"E","N","E">> ELSE identifier,
      cik |-> IF isEnron THEN ENRON_CIK ELSE <<"0","0","0","0","0","0","0","0","0","0">>,
      sic |-> <<"4","9","1","1">> ]

\* demoOverallRisk with the ordinary score moved one band up, the level left
demoOverallRisk_scoreOffBand(isEnron) ==
    [ score |-> IF isEnron THEN 850 ELSE 350,
      level |-> IF isEnron THEN "CRITICAL" ELSE "LOW" ]

demoOverallRisk(isEnron) ==
    [ score |-> IF isEnron THEN 850 ELSE 250,
      level |-> IF isEnron THEN "CRITICAL" ELSE "LOW" ]

demoModels(isEnron) ==
    [ beneish |->
        [ m_score |-> IF isEnron THEN -1420 ELSE -2850,
          dsri |-> IF isEnron THEN 1350 ELSE 1020,
          gmi |-> IF isEnron THEN 1150 ELSE 980,
          aqi |-> IF isEnron THEN 1280 ELSE 1010,
          sgi |-> IF isEnron THEN 1450 ELSE 1080 ],
      altman |->
        [ z_score |-> IF isEnron THEN 1250 ELSE 3450,
          zone |-> IF isEnron THEN "Distress" ELSE "Safe" ],
      piotroski |->
        [ f_score |-> IF isEnron THEN 2 ELSE 7 ],
      fraud_triangle |->
        [ risk_score |-> IF isEnron THEN 780 ELSE 220,
          risk_level |-> IF isEnron THEN "HIGH" ELSE "LOW",
          pressure |-> IF isEnron THEN 820 ELSE 250,
          opportunity |-> IF isEnron THEN 750 ELSE 200,
          rationalization |-> IF isEnron THEN 680 ELSE 180 ],
      benford |->
        [ deviation |-> IF isEnron THEN 8500 ELSE 2100,
          suspicious |-> isEnron ] ]

\* revenue and net_income in millions of dollars
demoFilings(isEnron) ==
    << [ accession |-> "0001024401-00-000123", filed_date |-> "2000-03-15",
         form_type |-> "10-K",
         revenue |-> IF isEnron THEN 100789 ELSE 50000,
         net_income |-> IF isEnron THEN 979 ELSE 5000,
         risk_level |-> IF isEnron THEN "HIGH" ELSE "LOW" ],
       [ accession |-> "0001024401-99-000456", filed_date |-> "1999-03-15",
         form_type |-> "10-K",
         revenue |-> IF isEnron THEN 40112 ELSE 45000,
         net_income |-> IF isEnron THEN 893 ELSE 4500,
         risk_level |-> IF isEnron THEN "MODERATE" ELSE "LOW" ] >>

\* demoTrends that reports the debt trend only for the Enron scenario
demoTrends_debtOnlyEnron(isEnron) ==
    IF isEnron
    THEN [ revenue_trend |-> "IMPROVING", income_trend |-> "DECLINING",
           cash_flow_trend |-> "DECLINING", debt_trend |-> "DECLINING" ]
    ELSE [ revenue_trend |-> "STABLE", income_trend |-> "IMPROVING",
           cash_flow_trend |-> "STABLE" ]

demoTrends(isEnron) ==
    [ revenue_trend |-> IF isEnron THEN "IMPROVING" ELSE "STABLE",
      income_trend |-> IF isEnron THEN "DECLINING" ELSE "IMPROVING",
      cash_flow_trend |-> IF isEnron THEN "DECLINING" ELSE "STABLE",
      debt_trend |-> IF isEnron THEN "DECLINING" ELSE "IMPROVING" ]

demoRedFlags(isEnron) == IF isEnron THEN ENRON_RED_FLAGS ELSE <<>>

demoRecommendation(isEnron) ==
    IF isEnron
    THEN "CRITICAL RISK: Multiple fraud indicators detected. This analysis reflects Enron's actual financial condition prior to its 2001 collapse. The company filed for bankruptcy in December 2001."
    ELSE "LOW RISK: No significant fraud indicators detected. Financial statements appear consistent with expected patterns."

generateDemoData(identifier) ==
    LET isEnron == isEnronId(identifier) IN
    [ ticker |-> identifier,
      company |-> demoCompany(identifier, isEnron),
      filings_analyzed |-> 8,
      overall_risk |-> demoOverallRisk(isEnron),
      models |-> demoModels(isEnron),
      filings |-> demoFilings(isEnron),
      trends |-> demoTrends(isEnron),
      red_flags |-> demoRedFlags(isEnron),
      recommendation |-> demoRecommendation(isEnron) ]

\* ------------------------------------------------------------------------
\* Utility Functions
\* ------------------------------------------------------------------------
\* (level || '').toUpperCase() for the level spellings that occur
UpperLevel(level) ==
    CASE level = "Low" -> "LOW"
      [] level = "Moderate" -> "MODERATE"
      [] level = "High" -> "HIGH"
      [] level = "Critical" -> "CRITICAL"
      [] OTHER -> level

getRiskClass(level) ==
    LET l == UpperLevel(level) IN
    CASE l = "LOW" -> "risk-low"
      [] l = "MODERATE" -> "risk-moderate"
      [] l = "ELEVATED" -> "risk-elevated"
      [] l = "HIGH" -> "risk-high"
      [] l = "CRITICAL" -> "risk-critical"
      [] OTHER -> ""

getBgClass(level) ==
    LET l == UpperLevel(level) IN
    CASE l = "LOW" -> "bg-low"
      [] l = "MODERATE" -> "bg-moderate"
      [] l = "ELEVATED" -> "bg-elevated"
      [] l = "HIGH" -> "bg-high"
      [] l = "CRITICAL" -> "bg-critical"
      [] OTHER -> ""

\* obj.f || dflt, for a plain-string f such as a risk level
StrOr(obj, f, dflt) == IF Has(obj, f) /\ obj[f] # "" THEN obj[f] ELSE dflt

\* data.red_flags?.length || 0
RedFlagCount(data) == IF Has(data, "red_flags") THEN Len(data.red_flags) ELSE 0

\* ------------------------------------------------------------------------
\* Display Functions: what each tab's innerHTML shows
\* ------------------------------------------------------------------------
\* data.overall_risk || data.composite_risk || {}
overviewRisk(data) ==
    IF Has(data, "overall_risk") THEN data.overall_risk
    ELSE ObjOrEmpty(data, "composite_risk")

displayOverview(data) ==
    LET risk == overviewRisk(data)
        riskLevel == StrOr(risk, "level", "Unknown")
        riskScore == NumOr(risk, "score", 0)
    IN  [ scoreClass |-> getRiskClass(riskLevel),
          score |-> ToPercent(riskScore),
          levelClass |-> getBgClass(riskLevel),
          level |-> riskLevel,
          filings_analyzed |-> NumOr(data, "filings_analyzed", 0),
          redFlagsClass |-> getRiskClass(IF Has(data, "red_flags") /\ Len(data.red_flags) > 3
                                         THEN "HIGH" ELSE "LOW"),
          redFlags |-> RedFlagCount(data) ]

\* b.m_score?.toFixed(2) || 'N/A'
fixed2OrNA(obj, f) == IF Has(obj, f) THEN ToFixed2(obj[f]) ELSE ShowText(<<"N/A">>)

beneishCard(b) ==
    [ valueClass |-> IF Gt(b, "m_score", -2220) THEN "risk-high" ELSE "risk-low",
      value |-> fixed2OrNA(b, "m_score"),
      indicatorClass |-> IF Gt(b, "m_score", -2220) THEN "bg-high" ELSE "bg-low",
      label |-> IF Gt(b, "m_score", -2220) THEN "Likely Manipulator" ELSE "Unlikely Manipulator" ]

\* altmanZone with the safe boundary taken inclusive
altmanZone_safeInclusive(a) ==
    IF Ge(a, "z_score", 2990) THEN "Safe"
    ELSE IF Lt(a, "z_score", 1810) THEN "Distress" ELSE "Gray"

altmanZone(a) ==
    IF Gt(a, "z_score", 2990) THEN "Safe"
    ELSE IF Lt(a, "z_score", 1810) THEN "Distress" ELSE "Gray"

altmanCard(a) ==
    [ valueClass |-> IF Lt(a, "z_score", 1810) THEN "risk-high"
                     ELSE IF Gt(a, "z_score", 2990) THEN "risk-low" ELSE "risk-moderate",
      value |-> fixed2OrNA(a, "z_score"),
      indicatorClass |-> IF Lt(a, "z_score", 1810) THEN "bg-high"
                         ELSE IF Gt(a, "z_score", 2990) THEN "bg-low" ELSE "bg-moderate",
      label |-> altmanZone(a) ]

\* piotroskiRating with the bands 8-9 / 5-7 / 0-4
piotroskiRating_shiftedBands(p) ==
    IF Ge(p, "f_score", 8) THEN "Strong"
    ELSE IF Le(p, "f_score", 4) THEN "Weak" ELSE "Moderate"

piotroskiRating(p) ==
    IF Ge(p, "f_score", 7) THEN "Strong"
    ELSE IF Le(p, "f_score", 3) THEN "Weak" ELSE "Moderate"

piotroskiCard(p) ==
    [ valueClass |-> IF Ge(p, "f_score", 7) THEN "risk-low"
                     ELSE IF Le(p, "f_score", 3) THEN "risk-high" ELSE "risk-moderate",
      value |-> ShowNum(NumOr(p, "f_score", 0)),
      indicatorClass |-> IF Ge(p, "f_score", 7) THEN "bg-low"
                         ELSE IF Le(p, "f_score", 3) THEN "bg-high" ELSE "bg-moderate",
      label |-> piotroskiRating(p) ]

\* fraudTriangleCard with both thresholds taken inclusive
fraudTriangleCard_inclusive(ft) ==
    [ valueClass |-> IF Ge(ft, "risk_score", 600) THEN "risk-high"
                     ELSE IF Ge(ft, "risk_score", 300) THEN "risk-moderate" ELSE "risk-low",
      value |-> IF Has(ft, "risk_score") THEN ToPercent(ft.risk_score) ELSE NaNPercent,
      indicatorClass |-> IF Ge(ft, "risk_score", 600) THEN "bg-high"
                         ELSE IF Ge(ft, "risk_score", 300) THEN "bg-moderate" ELSE "bg-low",
      label |-> StrOr(ft, "risk_level", "Unknown") ]

fraudTriangleCard(ft) ==
    [ valueClass |-> IF Gt(ft, "risk_score", 600) THEN "risk-high"
                     ELSE IF Gt(ft, "risk_score", 300) THEN "risk-moderate" ELSE "risk-low",
      value |-> IF Has(ft, "risk_score") THEN ToPercent(ft.risk_score) ELSE NaNPercent,
      indicatorClass |-> IF Gt(ft, "risk_score", 600) THEN "bg-high"
                         ELSE IF Gt(ft, "risk_score", 300) THEN "bg-moderate" ELSE "bg-low",
      label |-> StrOr(ft, "risk_level", "Unknown") ]

benfordCard(bf) ==
    LET suspicious == Has(bf, "suspicious") /\ bf.suspicious IN
    [ valueClass |-> IF suspicious THEN "risk-high" ELSE "risk-low",
      value |-> fixed2OrNA(bf, "deviation"),
      indicatorClass |-> IF suspicious THEN "bg-high" ELSE "bg-low",
      label |-> IF suspicious THEN "Anomaly Detected" ELSE "Normal" ]

modelCard(name, m) ==
    CASE name = "beneish" -> beneishCard(m)
      [] name = "altman" -> altmanCard(m)
      [] name = "piotroski" -> piotroskiCard(m)
      [] name = "fraud_triangle" -> fraudTriangleCard(m)
      [] name = "benford" -> benfordCard(m)

ModelNames == {"beneish", "altman", "piotroski", "fraud_triangle", "benford"}

\* one card per model entry that is present
displayModels(data) ==
    LET models == ObjOrEmpty(data, "models") IN
    [ name \in (DOMAIN models) \cap ModelNames |-> modelCard(name, models[name]) ]

\* data.company?.name || data.ticker || 'Unknown'
companyTitle(data) ==
    LET company == ObjOrEmpty(data, "company") IN
    TextOr(company, "name", TextOr(data, "ticker", <<"Unknown">>))

companyHeader(data) ==
    [ name |-> companyTitle(data),
      filings_analyzed |-> NumOr(data, "filings_analyzed", 0) ]

\* everything displayResults writes into the results panel
displayResults(data) ==
    [ header |-> companyHeader(data),
      overview |-> displayOverview(data),
      models |-> displayModels(data),
      redFlags |-> IF Has(data, "red_flags") THEN data.red_flags ELSE <<>>,
      trends |-> ObjOrEmpty(data, "trends"),
      activeTab |-> "overview" ]

\* ------------------------------------------------------------------------
\* Export Functions
\* ------------------------------------------------------------------------
\* obj.f || '' in a CSV cell: a non-zero number is printed, anything falsy
\* (absent, 0) gives the empty cell
numCell(obj, f) == IF Has(obj, f) /\ obj[f] # 0 THEN ShowNum(obj[f]) ELSE ShowText(<<>>)

convertToCSV(data) ==
    LET models == ObjOrEmpty(data, "models")
        risk == ObjOrEmpty(data, "overall_risk")
    IN  << <<"Metric", ShowText(<<"Value">>)>>,
           <<"Ticker", ShowText(TextOr(data, "ticker", <<>>))>>,
           <<"Company", ShowText(TextOr(ObjOrEmpty(data, "company"), "name", <<>>))>>,
           <<"Filings Analyzed", ShowNum(NumOr(data, "filings_analyzed", 0))>>,
           <<"Overall Risk Score", numCell(risk, "score")>>,
           <<"Risk Level", ShowText(<<StrOr(risk, "level", "")>>)>> >>
        \o (IF Has(models, "beneish")
            THEN << <<"Beneish M-Score", numCell(models.beneish, "m_score")>> >> ELSE <<>>)
        \o (IF Has(models, "altman")
            THEN << <<"Altman Z-Score", numCell(models.altman, "z_score")>> >> ELSE <<>>)
        \o (IF Has(models, "piotroski")
            THEN << <<"Piotroski F-Score", numCell(models.piotroski, "f_score")>> >> ELSE <<>>)
        \o << <<"Red Flags", ShowNum(RedFlagCount(data))>> >>

\* ${x?.toFixed(2)} inside a template literal
fixed2OrUndefined(obj, f) == IF Has(obj, f) THEN ToFixed2(obj[f]) ELSE ShowUndefined

htmlBeneishRow(b) ==
    [ model |-> "Beneish M-Score",
      score |-> fixed2OrUndefined(b, "m_score"),
      interpretation |-> IF Gt(b, "m_score", -2220) THEN "Likely Manipulator"
                         ELSE "Unlikely Manipulator" ]

htmlAltmanRow(a) ==
    [ model |-> "Altman Z-Score",
      score |-> fixed2OrUndefined(a, "z_score"),
      interpretation |-> IF Gt(a, "z_score", 2990) THEN "Safe"
                         ELSE IF Lt(a, "z_score", 1810) THEN "Distress" ELSE "Gray" ]

htmlPiotroskiRow(p) ==
    [ model |-> "Piotroski F-Score",
      score |-> IF Has(p, "f_score") THEN ShowNum(p.f_score) ELSE ShowUndefined,
      interpretation |-> IF Ge(p, "f_score", 7) THEN "Strong"
                         ELSE IF Le(p, "f_score", 3) THEN "Weak" ELSE "Moderate" ]

htmlRow(name, m) ==
    CASE name = "beneish" -> htmlBeneishRow(m)
      [] name = "altman" -> htmlAltmanRow(m)
      [] name = "piotroski" -> htmlPiotroskiRow(m)

generateHTMLReport(data) ==
    LET models == ObjOrEmpty(data, "models")
        risk == ObjOrEmpty(data, "overall_risk")
    IN  [ title |-> TextOr(data, "ticker", <<"Report">>),
          company |-> companyTitle(data),
          version |-> APP_VERSION,
          riskClass |-> getRiskClass(StrOr(risk, "level", "")),
          risk |-> StrOr(risk, "level", "Unknown"),
          score |-> ToPercent(NumOr(risk, "score", 0)),
          rows |-> [ name \in (DOMAIN models) \cap {"beneish", "altman", "piotroski"}
                       |-> htmlRow(name, models[name]) ],
          redFlags |-> IF Has(data, "red_flags") THEN data.red_flags ELSE <<>> ]

\* the file exportResults hands to downloadFile
exportContent(format, data) ==
    CASE format = "json" -> data
      [] format = "csv" -> convertToCSV(data)
      [] format = "html" -> generateHTMLReport(data)

exportFilename(format, data) ==
    <<"fraud-analysis-">> \o TextOr(data, "ticker", <<"export">>) \o <<".", format>>

\* ------------------------------------------------------------------------
\* normalizeApiUrl
\* ------------------------------------------------------------------------
suffixesToRemove == <<
    <<"/","a","p","i","/","h","e","a","l","t","h">>,
    <<"/","a","p","i","/","a","n","a","l","y","z","e">>,
    <<"/","a","p","i","/","f","i","l","i","n","g","s">>,
    <<"/","a","p","i","/">>,
    <<"/","a","p","i">> >>

RECURSIVE stripSuffixes(_, _)
stripSuffixes(url, i) ==
    IF i > Len(suffixesToRemove) THEN url
    ELSE IF EndsWith(url, suffixesToRemove[i])
         THEN stripSuffixes(SubSeq(url, 1, Len(url) - Len(suffixesToRemove[i])), i + 1)
         ELSE stripSuffixes(url, i + 1)

RECURSIVE stripSlashes(_)
stripSlashes(url) ==
    IF EndsWith(url, <<"/">>) THEN stripSlashes(SubSeq(url, 1, Len(url) - 1)) ELSE url

normalizeApiUrl(url) ==
    IF url = <<>> THEN <<>> ELSE stripSlashes(stripSuffixes(Trim(url), 1))

\* ------------------------------------------------------------------------
\* What the user can type, what config.json holds, what the server answers
\* ------------------------------------------------------------------------
TickerInputs == { <<"a","a","p","l">>, <<" ","e","n","r","o","n","x">> }
CikInputs == { ENRON_CIK }
ExportFormats == { "json", "csv", "html" }

\* no config.json at all, or the one of the README with the endpoint path
\* left in the URL
ConfigFiles ==
    { EmptyObj,
      [ apiUrl |-> <<"h","t","t","p",":","/","/","s","/","a","p","i","/">>,
        timeout |-> 30, darkMode |-> FALSE, demoMode |-> FALSE ] }

\* ... or one that switches both modes on
SettingsConfigs ==
    ConfigFiles \cup
    { [ apiUrl |-> <<"h","t","t","p",":","/","/","s","/","a","p","i","/">>,
        timeout |-> 60, darkMode |-> TRUE, demoMode |-> TRUE ] }

\* what the connection modal's URL input can hold: nothing, or a server
\* address followed by up to two endpoint paths, slashes or blanks
UrlTails ==
    { <<>>, <<"/">>, <<" ">>, <<"/","a","p","i">>, <<"/","a","p","i","/">>,
      <<"/","a","p","i","/","h","e","a","l","t","h">>,
      <<"/","a","p","i","/","a","n","a","l","y","z","e">>,
      <<"/","a","p","i","/","f","i","l","i","n","g","s">> }
UrlInputs ==
    { <<>> } \cup
    { lead \o <<"h","t","t","p",":","/","/","t">> \o tail1 \o tail2 :
        lead \in {<<>>, <<" ">>}, tail1 \in UrlTails,
        tail2 \in { <<>>, <<"/">>, <<" ">>, <<"/","a","p","i">> } }
TimeoutInputs == { <<"6","0">>, <<>> }
\* the addresses tested from the modal: none, a second server, the configured one
TestUrlInputs ==
    { <<>>, <<"h","t","t","p",":","/","/","t">>,
      <<"h","t","t","p",":","/","/","s","/","a","p","i","/">> }

\* the one address typed into the connection modal while the tools are used
ToolUrlInputs == { <<"h","t","t","p",":","/","/","s","/","a","p","i","/">> }

\* the keys pressed: the shortcuts, one of them with Shift, and other keys
KeyInputs ==
    { <<"s">>, <<"S">>, <<"e">>, <<"h">>, <<"p">>, <<"d">>, <<"m">>, <<"x">>,
      <<"F","1">>, <<"E","s","c","a","p","e">> }

\* score values on both sides of, and exactly on, every threshold the
\* client compares with; the k-th probe report carries the k-th of each
ProbeM == << -2850, -2221, -2220, -2219, -2000, -1781, -1780, -1779, -1420, 0 >>
ProbeZ == << 4920, 2991, 2990, 2989, 2500, 1811, 1810, 1809, 1250, 0 >>
ProbeF == << 8, 9, 7, 6, 5, 4, 3, 2, 1, 0 >>
ProbeFT == << 220, 299, 300, 301, 500, 599, 600, 601, 1000, 0 >>
ProbeOverall == << 185, 250, 249, 200, 150, 100, 50, 10, 1, 0 >>
NProbes == Len(ProbeM)

FTLevel(rs) == IF rs > 600 THEN "HIGH" ELSE IF rs > 300 THEN "MODERATE" ELSE "LOW"

\* a server report in the shape the client reads: the company of the
\* analysis example of the user guide, all five models, and the overall
\* score on the 0..1 scale that displayOverview multiplies by 100
ProbeReport(k) ==
    [ ticker |-> <<"A","A","P","L">>,
      company |-> [ name |-> <<"Apple Inc.">>, ticker |-> <<"A","A","P","L">>,
                    cik |-> <<"0","0","0","0","3","2","0","1","9","3">> ],
      overall_risk |-> [ level |-> "LOW", score |-> ProbeOverall[k] ],
      models |->
        [ beneish |-> [ m_score |-> ProbeM[k] ],
          altman |-> [ z_score |-> ProbeZ[k] ],
          piotroski |-> [ f_score |-> ProbeF[k] ],
          fraud_triangle |-> [ risk_score |-> ProbeFT[k], risk_level |-> FTLevel(ProbeFT[k]) ],
          benford |-> [ deviation |-> 2100, suspicious |-> FALSE ] ],
      filings_analyzed |-> 17 ]

\* a report whose models could not be computed: the entries carry a reason
\* instead of a score, and the overall score is left out
NoScoreReport ==
    [ ticker |-> <<"N","E","W","C","O">>,
      company |-> [ name |-> <<"Newco Inc.">>, ticker |-> <<"N","E","W","C","O">> ],
      overall_risk |-> [ level |-> "Unknown" ],
      models |->
        [ beneish |-> [ error |-> "insufficient data" ],
          altman |-> [ error |-> "insufficient data" ],
          piotroski |-> [ error |-> "insufficient data" ] ],
      filings_analyzed |-> 1 ]

\* the success response of the API example of the user guide, as printed
\* there: a status and the report under data, the overall score 18.5
DocumentedResponse ==
    [ status |-> "success",
      data |->
        [ company |-> [ name |-> <<"Apple Inc.">>, ticker |-> <<"A","A","P","L">>,
                        cik |-> <<"0","0","0","0","3","2","0","1","9","3">> ],
          overall_risk |-> [ level |-> "LOW", score |-> 18500 ],
          models |->
            [ beneish |-> [ m_score |-> -2850, risk_level |-> "LOW",
                            interpretation |-> "Unlikely manipulation" ],
              altman |-> [ z_score |-> 4920, risk_level |-> "LOW", zone |-> "Safe" ],
              piotroski |-> [ f_score |-> 8, risk_level |-> "LOW", rating |-> "Strong" ] ],
          filings_analyzed |-> 17 ] ]

ServerReports ==
    { ProbeReport(k) : k \in 1..NProbes } \cup { NoScoreReport, DocumentedResponse }

\* a session of several analyses: the ticker entered, and the report the
\* server holds for each company
SessionTickers == { <<"a","a","p","l">> }
sessionReport(identifier) ==
    IF identifier = <<"A","A","P","L">> THEN ProbeReport(1) ELSE NoScoreReport

\* the value of the #scope control, the number of years to analyse: the
\* default of the FAQ, and a value beyond the 1-10 years it gives
DefaultScope == 5
ScopeInputs == { DefaultScope, 11 }

\* what the batch modal's textarea holds: two tickers, or separators only;
\* and how the analysis form has been left: ticker mode, or CIK mode
BatchInputs ==
    { <<"a","a","p","l",","," ","m","s","f","t">>, <<" ",",","\n">> }
BatchForms ==
    { [ useCik |-> FALSE, cik |-> <<>>, scope |-> DefaultScope ],
      [ useCik |-> TRUE, cik |-> ENRON_CIK, scope |-> DefaultScope ] }
\* the form while the tools are used: ticker mode, the default scope
ToolForms == { [ useCik |-> FALSE, cik |-> <<>>, scope |-> DefaultScope ] }
SearchTerms == { <<"e","n","r","o","n">>, <<" ">> }

\* ------------------------------------------------------------------------
\* Application state
\* ------------------------------------------------------------------------
VARIABLES
    apiBaseUrl,        \* let apiBaseUrl
    currentData,       \* let currentData (Null or a report)
    isConnected,       \* let isConnected
    isDemoMode,        \* let isDemoMode
    isDarkMode,        \* let isDarkMode
    requestTimeout,    \* let requestTimeout, in seconds
    analysisHistory,   \* let analysisHistory, newest first
    localStorage,      \* window.localStorage: key -> stored value
    loadingHidden,     \* #loading carries class "hidden"
    resultsHidden,     \* #results carries class "hidden"
    results,           \* content of the results panel (Null before the first display)
    analyses,          \* analyzeCompany runs in flight: demo timers and /api/analyze fetches
    healthChecks,      \* /api/health fetches in flight
    lastHealth,        \* the /api/health fetch that settled last (Null: none yet)
    started,           \* number of analyzeCompany runs that went in flight
    runLog,            \* the identifiers of those runs, in the order they started
    download,          \* the file the latest step handed to downloadFile (Null: none)
    generated,         \* the report generateDemoData returned in the latest step (Null: none)
    printed,           \* the latest step called window.print()
    batch,             \* the loop of runBatchAnalysis (Null before the first batch)
    apiCalls           \* search, filings and cache requests in flight

vars == << apiBaseUrl, currentData, isConnected, isDemoMode, isDarkMode, requestTimeout,
           analysisHistory, localStorage, loadingHidden,
           resultsHidden, results, analyses, healthChecks, lastHealth, started,
           runLog, download, generated, printed, batch, apiCalls >>

settingsVars == << apiBaseUrl, isConnected, isDemoMode, isDarkMode, requestTimeout,
                   healthChecks, lastHealth >>
panelVars == << loadingHidden, resultsHidden, results >>
toolVars == << batch, apiCalls >>

\* a step that neither exports, nor generates demo data, nor prints
NoOutput == download' = Null /\ generated' = Null /\ printed' = FALSE

\* obj with property f set to v
SetProp(obj, f, v) == [k \in (DOMAIN obj) \cup {f} |-> IF k = f THEN v ELSE obj[k]]

BoolString(b) == IF b THEN "true" ELSE "false"

\* Number.prototype.toString and parseInt(text, 10), for the non-negative
\* whole numbers a timeout is; parseInt reads the leading digits and gives
\* NaN when there is none
Digits == <<"0","1","2","3","4","5","6","7","8","9">>
NaN == [isNaN |-> TRUE]
IsDigit(c) == \E i \in 1..10 : Digits[i] = c
DigitValue(c) == (CHOOSE i \in 1..10 : Digits[i] = c) - 1

RECURSIVE NumToString(_)
NumToString(n) ==
    IF n < 10 THEN <<Digits[n + 1]>>
    ELSE NumToString(n \div 10) \o <<Digits[(n % 10) + 1]>>

RECURSIVE parseDigits(_, _)
parseDigits(text, acc) ==
    IF text # <<>> /\ IsDigit(Head(text))
    THEN parseDigits(Tail(text), 10 * acc + DigitValue(Head(text)))
    ELSE acc

startsWithDigit(text) == TrimStart(text) # <<>> /\ IsDigit(Head(TrimStart(text)))

parseInt(text) == IF startsWithDigit(text) THEN parseDigits(TrimStart(text), 0) ELSE NaN

\* ---- normalizeApiUrl and applyConfig ------------------------------------
\* the globals after applyConfig(config), starting from their initial values
configUrl(config) ==
    IF Has(config, "apiUrl") /\ config.apiUrl # <<>>
    THEN normalizeApiUrl(config.apiUrl) ELSE <<>>
configTimeout(config) == NumOr(config, "timeout", 30)
configDarkMode(config) == IF Has(config, "darkMode") THEN config.darkMode ELSE FALSE
configDemoMode(config) == IF Has(config, "demoMode") THEN config.demoMode ELSE FALSE

\* a GET <url>/api/health in flight; one sent by testConnectionFromModal
\* carries the address its then-callback puts back
healthFetch(url) == [ url |-> url, modal |-> FALSE, tempUrl |-> <<>> ]
modalFetch(url, tempUrl) == [ url |-> url, modal |-> TRUE, tempUrl |-> tempUrl ]

\* the globals after loadSettings() has read what an earlier visit stored
storedText(stored, key) == TextOr(stored, key, <<>>)

loadSettings(config, stored) ==
    [ apiBaseUrl |->
        IF storedText(stored, "apiUrl") # <<>> /\ configUrl(config) = <<>>
        THEN normalizeApiUrl(stored.apiUrl) ELSE configUrl(config),
      requestTimeout |->
        IF storedText(stored, "requestTimeout") # <<>>
        THEN parseInt(stored.requestTimeout) ELSE configTimeout(config),
      isDarkMode |->
        IF Has(stored, "darkMode") /\ stored.darkMode = "true" THEN TRUE
        ELSE configDarkMode(config),
      isDemoMode |->
        IF Has(stored, "demoMode") /\ stored.demoMode = "true" THEN TRUE
        ELSE configDemoMode(config) ]

\* loadHistory
loadHistory(stored) ==
    IF Has(stored, "analysisHistory") THEN stored.analysisHistory.json ELSE <<>>

\* the page has loaded: initializeApp has applied config.json (if any), read
\* localStorage, and called checkServerConnection, which in demo mode
\* reports connected, without a URL reports not connected, and otherwise
\* has its /api/health request in flight; then it has loaded the history,
\* and last replaced apiBaseUrl and the stored URL by the normalized stored URL
InitFrom(config, stored) ==
    LET loaded == loadSettings(config, stored) IN
    /\ apiBaseUrl = IF storedText(stored, "apiUrl") # <<>>
                    THEN normalizeApiUrl(stored.apiUrl) ELSE loaded.apiBaseUrl
    /\ requestTimeout = loaded.requestTimeout
    /\ isDarkMode = loaded.isDarkMode
    /\ isDemoMode = loaded.isDemoMode
    /\ isConnected = isDemoMode
    /\ healthChecks = IF ~isDemoMode /\ loaded.apiBaseUrl # <<>>
                      THEN << healthFetch(loaded.apiBaseUrl) >> ELSE <<>>
    /\ lastHealth = Null
    /\ currentData = Null
    /\ analysisHistory = loadHistory(stored)
    /\ localStorage = IF storedText(stored, "apiUrl") # <<>>
                      THEN SetProp(stored, "apiUrl", normalizeApiUrl(stored.apiUrl))
                      ELSE stored
    /\ loadingHidden = TRUE
    /\ resultsHidden = TRUE
    /\ results = Null
    /\ analyses = {}
    /\ started = 0
    /\ runLog = <<>>
    /\ download = Null
    /\ generated = Null
    /\ printed = FALSE
    /\ batch = Null
    /\ apiCalls = {}

\* ... on a first visit, with nothing in localStorage
InitWith(config) == InitFrom(config, EmptyObj)

Init == \E config \in ConfigFiles : InitWith(config)

\* saveSettings, given the values the globals have when it runs
saveSettings(store, url, timeout, dark, demo) ==
    SetProp(SetProp(SetProp(SetProp(store,
        "apiUrl", url),
        "requestTimeout", NumToString(timeout)),
        "darkMode", BoolString(dark)),
        "demoMode", BoolString(demo))

\* ---- Connection Management ----------------------------------------------
\* checkServerConnection up to its fetch: in demo mode it reports connected
\* at once, without a URL it reports not connected, otherwise it starts a
\* GET <url>/api/health and leaves isConnected alone until that settles
checkStartsFetch(demo, url) == ~demo /\ url # <<>>

checkServerConnection(demo, url) ==
    /\ checkStartsFetch(demo, url) => Len(healthChecks) < MaxHealth
    /\ isConnected' = IF demo THEN TRUE
                      ELSE IF url = <<>> THEN FALSE ELSE isConnected
    /\ healthChecks' = IF checkStartsFetch(demo, url)
                       THEN Append(healthChecks, healthFetch(url))
                       ELSE healthChecks

RemoveAt(seq, i) == SubSeq(seq, 1, i - 1) \o SubSeq(seq, i + 1, Len(seq))

\* the health fetch settles: response.ok, or an error status / network
\* failure / 5 s abort; either way updateConnectionStatus sets isConnected
HealthCheckSettles(i, ok) ==
    /\ i \in 1..Len(healthChecks)
    /\ isConnected' = ok
    /\ healthChecks' = RemoveAt(healthChecks, i)
    /\ lastHealth' = [ url |-> healthChecks[i].url, ok |-> ok ]
    /\ apiBaseUrl' = IF healthChecks[i].modal /\ ~ok
                     THEN healthChecks[i].tempUrl ELSE apiBaseUrl
    /\ NoOutput
    /\ UNCHANGED << isDemoMode, isDarkMode, requestTimeout, currentData,
                    analysisHistory, localStorage, panelVars, analyses, started, runLog, toolVars >>

\* saveConnectionSettings, with what the modal's two inputs hold
saveConnectionSettings(urlValue, timeoutValue) ==
    /\ apiBaseUrl' = normalizeApiUrl(urlValue)
    /\ requestTimeout' = IF ~startsWithDigit(timeoutValue) \/ parseInt(timeoutValue) = 0
                         THEN 30 ELSE parseInt(timeoutValue)
    /\ localStorage' = saveSettings(localStorage, apiBaseUrl', requestTimeout',
                                    isDarkMode, isDemoMode)
    /\ checkServerConnection(isDemoMode, apiBaseUrl')
    /\ NoOutput
    /\ UNCHANGED << isDemoMode, isDarkMode, lastHealth, currentData, analysisHistory, panelVars, analyses, started, runLog, toolVars >>

\* ---- Mode Toggles -------------------------------------------------------
toggleDarkMode ==
    /\ isDarkMode' = ~isDarkMode
    /\ localStorage' = saveSettings(localStorage, apiBaseUrl, requestTimeout,
                                    isDarkMode', isDemoMode)
    /\ NoOutput
    /\ UNCHANGED << apiBaseUrl, isConnected, isDemoMode, requestTimeout, healthChecks,
                    lastHealth, currentData, analysisHistory, panelVars, analyses, started, runLog, toolVars >>

toggleDemoMode ==
    /\ isDemoMode' = ~isDemoMode
    /\ localStorage' = saveSettings(localStorage, apiBaseUrl, requestTimeout,
                                    isDarkMode, isDemoMode')
    /\ checkServerConnection(isDemoMode', apiBaseUrl)
    /\ NoOutput
    /\ UNCHANGED << apiBaseUrl, isDarkMode, requestTimeout, lastHealth, currentData, analysisHistory, panelVars, analyses, started, runLog, toolVars >>

\* ---- History Management -------------------------------------------------
HistoryLimit == 50

JSONstringify(value) == [json |-> value]

\* the entry's timestamp (new Date()) is left out: nothing reads it back
historyEntry(identifier, data) ==
    [ identifier |-> identifier,
      company |-> TextOr(ObjOrEmpty(data, "company"), "name", identifier),
      riskLevel |-> StrOr(ObjOrEmpty(data, "overall_risk"), "level", "Unknown") ]

\* the entry put in front and nothing dropped
historyAfterAdd_noLimit(history, identifier, data) ==
    <<historyEntry(identifier, data)>> \o history

\* analysisHistory.unshift(entry); drop the oldest beyond the limit
historyAfterAdd(history, identifier, data) ==
    LET grown == <<historyEntry(identifier, data)>> \o history IN
    IF Len(grown) > HistoryLimit THEN SubSeq(grown, 1, Len(grown) - 1) ELSE grown

addToHistory(identifier, data) ==
    /\ analysisHistory' = historyAfterAdd(analysisHistory, identifier, data)
    /\ localStorage' = SetProp(localStorage, "analysisHistory", JSONstringify(analysisHistory'))

\* clearHistory
clearHistory ==
    /\ analysisHistory' = <<>>
    /\ localStorage' = [ k \in (DOMAIN localStorage) \ {"analysisHistory"} |-> localStorage[k] ]
    /\ NoOutput
    /\ UNCHANGED << settingsVars, currentData, panelVars, analyses, started, runLog, toolVars >>

\* the page is loaded again: initializeApp runs on what localStorage holds
\* now; the requests and timers of the page before are gone with it. The
\* count of runs goes on, so that the bound on runs covers the whole visit.
reload(config) ==
    /\ apiBaseUrl' = IF storedText(localStorage, "apiUrl") # <<>>
                     THEN normalizeApiUrl(localStorage.apiUrl)
                     ELSE loadSettings(config, localStorage).apiBaseUrl
    /\ requestTimeout' = loadSettings(config, localStorage).requestTimeout
    /\ isDarkMode' = loadSettings(config, localStorage).isDarkMode
    /\ isDemoMode' = loadSettings(config, localStorage).isDemoMode
    /\ isConnected' = isDemoMode'
    /\ healthChecks' = IF ~isDemoMode' /\ loadSettings(config, localStorage).apiBaseUrl # <<>>
                       THEN << healthFetch(loadSettings(config, localStorage).apiBaseUrl) >>
                       ELSE <<>>
    /\ lastHealth' = Null
    /\ currentData' = Null
    /\ analysisHistory' = loadHistory(localStorage)
    /\ localStorage' = IF storedText(localStorage, "apiUrl") # <<>>
                       THEN SetProp(localStorage, "apiUrl", normalizeApiUrl(localStorage.apiUrl))
                       ELSE localStorage
    /\ loadingHidden' = TRUE
    /\ resultsHidden' = TRUE
    /\ results' = Null
    /\ analyses' = {}
    /\ batch' = Null
    /\ apiCalls' = {}
    /\ NoOutput
    /\ UNCHANGED << started, runLog >>

\* ---- Analysis Functions -------------------------------------------------
\* the identifier analyzeCompany reads from the form: the #cik input when
\* the #use-cik checkbox is checked, the #ticker input otherwise
\* the field read without trim()
formIdentifier_noTrim(useCik, value) == IF useCik THEN value ELSE ToUpperCase(value)

formIdentifier(useCik, value) == IF useCik THEN Trim(value) ELSE ToUpperCase(Trim(value))

\* what a failed run is expected to have left alone, as it is when the run starts
beforeRun ==
    [ currentData |-> currentData, resultsHidden |-> resultsHidden,
      results |-> results, analysisHistory |-> analysisHistory ]

\* analyzeCompany, with the form as the user (or the calling handler) has
\* left it: only this handler reads the checkbox, the two inputs and the
\* #scope control, and it reads them before its first await.  The alerts
\* (showAlert) are transient and not part of the state.  limit bounds the
\* runs of one behaviour.  runBatchAnalysis calls the handler as well, and
\* keeps its own position in batch.
analyzeCompany(limit, useCik, scope, value) ==
    LET identifier == formIdentifier(useCik, value) IN
    IF identifier = <<>>
    THEN \* nothing entered: warn and return
         /\ NoOutput
         /\ UNCHANGED << settingsVars, currentData, analysisHistory, localStorage, panelVars, analyses, started, runLog, apiCalls >>
    ELSE IF isDemoMode
    THEN \* show loading, hide results, arm the 1.5 s demo timer
         /\ started < limit
         /\ started' = started + 1
         /\ runLog' = Append(runLog, identifier)
         /\ loadingHidden' = FALSE
         /\ resultsHidden' = TRUE
         /\ analyses' = analyses \cup
                {[ run |-> started', kind |-> "demo", identifier |-> identifier ]}
         /\ NoOutput
         /\ UNCHANGED << settingsVars, currentData, analysisHistory, localStorage, results, apiCalls >>
    ELSE IF ~isConnected
    THEN \* loading is shown and hidden again, the results stay hidden
         /\ loadingHidden' = TRUE
         /\ resultsHidden' = TRUE
         /\ NoOutput
         /\ UNCHANGED << settingsVars, currentData, analysisHistory, localStorage, results, analyses, started, runLog, apiCalls >>
    ELSE \* GET <apiBaseUrl>/api/analyze?years=<scope>&...&ticker=|cik=<identifier>
         /\ started < limit
         /\ started' = started + 1
         /\ runLog' = Append(runLog, identifier)
         /\ loadingHidden' = FALSE
         /\ resultsHidden' = TRUE
         /\ analyses' = analyses \cup
                {[ run |-> started', kind |-> "fetch", identifier |-> identifier,
                   url |-> apiBaseUrl, years |-> scope,
                   param |-> IF useCik THEN "cik" ELSE "ticker",
                   before |-> beforeRun ]}
         /\ NoOutput
         /\ UNCHANGED << settingsVars, currentData, analysisHistory, localStorage, results, apiCalls >>

\* ... called from the form: the Enter key in #ticker or #cik, the button
analyzeFromForm(limit, useCik, scope, value) ==
    analyzeCompany(limit, useCik, scope, value) /\ UNCHANGED batch

\* the body shared by both completions: currentData = data;
\* displayResults(data); addToHistory(identifier, data)
completeAnalysis(identifier, data) ==
    /\ currentData' = data
    /\ results' = displayResults(data)
    /\ resultsHidden' = FALSE
    /\ addToHistory(identifier, data)

\* the demo timer of a run fires; the timers all run 1500 ms, so they fire
\* in the order they were armed
DemoTimerFires(a) ==
    /\ a \in analyses
    /\ a.kind = "demo"
    /\ \A b \in analyses : b.kind = "demo" => b.run >= a.run
    /\ generated' = generateDemoData(a.identifier)
    /\ completeAnalysis(a.identifier, generated')
    /\ loadingHidden' = TRUE
    /\ analyses' = analyses \ {a}
    /\ download' = Null
    /\ printed' = FALSE
    /\ UNCHANGED << settingsVars, started, runLog, toolVars >>

\* the /api/analyze fetch of a run is answered 200 with a JSON body
FetchSucceeds(a, data) ==
    /\ a \in analyses
    /\ a.kind = "fetch"
    /\ completeAnalysis(a.identifier, data)
    /\ loadingHidden' = TRUE
    /\ analyses' = analyses \ {a}
    /\ NoOutput
    /\ UNCHANGED << settingsVars, started, runLog, toolVars >>

\* ... or it is answered 200 with the JSON body null: currentData = data is
\* done, displayResults un-hides the results panel and then throws on
\* data.company; the catch block alerts, finally hides the loading indicator
ResponseHandlingThrows(a) ==
    /\ a \in analyses
    /\ a.kind = "fetch"
    /\ currentData' = Null
    /\ resultsHidden' = FALSE
    /\ loadingHidden' = TRUE
    /\ analyses' = analyses \ {a}
    /\ NoOutput
    /\ UNCHANGED << settingsVars, analysisHistory, localStorage, results, started, runLog, toolVars >>

\* ... or it ends with an error status, a network failure, a body that is
\* not JSON, or the abort of the request timeout: an alert, then finally
\* the loading indicator is hidden
FetchFails(a) ==
    /\ a \in analyses
    /\ a.kind = "fetch"
    /\ loadingHidden' = TRUE
    /\ analyses' = analyses \ {a}
    /\ NoOutput
    /\ UNCHANGED << settingsVars, currentData, analysisHistory, localStorage,
                    resultsHidden, results, started, runLog, toolVars >>

\* ---- Export -------------------------------------------------------------
exportResults(format) ==
    /\ download' = IF currentData = Null THEN Null
                   ELSE [ format |-> format,
                          filename |-> exportFilename(format, currentData),
                          content |-> exportContent(format, currentData) ]
    /\ generated' = Null
    /\ printed' = FALSE
    /\ UNCHANGED << settingsVars, currentData, analysisHistory, localStorage, panelVars, analyses, started, runLog, toolVars >>

\* printReport
printReport ==
    /\ printed' = TRUE
    /\ download' = Null
    /\ generated' = Null
    /\ UNCHANGED << settingsVars, currentData, analysisHistory, localStorage, panelVars, analyses, started, runLog, toolVars >>

\* ---- Keyboard Shortcuts ------------------------------------------------
\* the keydown listener: with Ctrl or Cmd held, the lower-cased key selects
\* the handler; F1 and Escape only open the help and close the modals,
\* which are not part of the state, and any other key does nothing
\* keydown with the export shortcuts of JSON and CSV exchanged
keydown_exportKeysSwapped(ctrlOrMeta, key) ==
    LET k == ToLowerCase(key) IN
    IF ctrlOrMeta /\ k = <<"s">> THEN exportResults("csv")
    ELSE IF ctrlOrMeta /\ k = <<"e">> THEN exportResults("json")
    ELSE IF ctrlOrMeta /\ k = <<"h">> THEN exportResults("html")
    ELSE IF ctrlOrMeta /\ k = <<"p">> THEN printReport
    ELSE IF ctrlOrMeta /\ k = <<"d">> THEN toggleDarkMode
    ELSE IF ctrlOrMeta /\ k = <<"m">> THEN toggleDemoMode
    ELSE /\ NoOutput
         /\ UNCHANGED << settingsVars, currentData, analysisHistory, localStorage, panelVars, analyses, started, runLog, toolVars >>

keydown(ctrlOrMeta, key) ==
    LET k == ToLowerCase(key) IN
    IF ctrlOrMeta /\ k = <<"s">> THEN exportResults("json")
    ELSE IF ctrlOrMeta /\ k = <<"e">> THEN exportResults("csv")
    ELSE IF ctrlOrMeta /\ k = <<"h">> THEN exportResults("html")
    ELSE IF ctrlOrMeta /\ k = <<"p">> THEN printReport
    ELSE IF ctrlOrMeta /\ k = <<"d">> THEN toggleDarkMode
    ELSE IF ctrlOrMeta /\ k = <<"m">> THEN toggleDemoMode
    ELSE /\ NoOutput
         /\ UNCHANGED << settingsVars, currentData, analysisHistory, localStorage, panelVars, analyses, started, runLog, toolVars >>

\* ------------------------------------------------------------------------
\* ---- Tools --------------------------------------------------------------
\* testConnection: nothing but an alert in demo mode or without a URL,
\* otherwise a GET <apiBaseUrl>/api/health whose outcome sets isConnected
testConnection ==
    /\ IF isDemoMode \/ apiBaseUrl = <<>>
       THEN healthChecks' = healthChecks
       ELSE /\ Len(healthChecks) < MaxHealth
            /\ healthChecks' = Append(healthChecks, healthFetch(apiBaseUrl))
    /\ NoOutput
    /\ UNCHANGED << apiBaseUrl, isConnected, isDemoMode, isDarkMode, requestTimeout,
                    lastHealth, currentData, analysisHistory, localStorage, panelVars, analyses,
                    started, runLog, toolVars >>

\* testConnectionFromModal, with what the modal's URL input holds: the
\* normalized input becomes apiBaseUrl, testConnection() runs, and its
\* then-callback puts the former address back if isConnected is false.
\* In demo mode or with an empty address testConnection() returns at once
\* and the callback runs before any other event.
testConnectionFromModal(urlValue) ==
    /\ IF isDemoMode \/ normalizeApiUrl(urlValue) = <<>>
       THEN /\ apiBaseUrl' = IF isConnected THEN normalizeApiUrl(urlValue) ELSE apiBaseUrl
            /\ healthChecks' = healthChecks
       ELSE /\ Len(healthChecks) < MaxHealth
            /\ apiBaseUrl' = normalizeApiUrl(urlValue)
            /\ healthChecks' = Append(healthChecks,
                                      modalFetch(normalizeApiUrl(urlValue), apiBaseUrl))
    /\ NoOutput
    /\ UNCHANGED << isConnected, isDemoMode, isDarkMode, requestTimeout, lastHealth,
                    currentData, analysisHistory, localStorage, panelVars, analyses,
                    started, runLog, toolVars >>

\* a handler that, when sends holds, starts the request call and otherwise
\* only alerts; its response is shown in an alert or written into the form
toolRequest(sends, call) ==
    /\ sends => Cardinality(apiCalls) < MaxCalls
    /\ apiCalls' = IF sends THEN apiCalls \cup {call} ELSE apiCalls
    /\ NoOutput
    /\ UNCHANGED << settingsVars, currentData, analysisHistory, localStorage, panelVars,
                    analyses, started, runLog, batch >>

\* searchCIK: in demo mode the answer comes from the built-in table
searchCIK(term) ==
    toolRequest(Trim(term) # <<>> /\ ~isDemoMode /\ isConnected,
                [ endpoint |-> "/api/cik/search", url |-> apiBaseUrl, query |-> Trim(term) ])

\* listFilings without the demo mode check
listFilings_noDemoCheck(value) ==
    toolRequest(ToUpperCase(Trim(value)) # <<>> /\ isConnected,
                [ endpoint |-> "/api/filings", url |-> apiBaseUrl,
                  query |-> ToUpperCase(Trim(value)) ])

listFilings(value) ==
    toolRequest(ToUpperCase(Trim(value)) # <<>> /\ ~isDemoMode /\ isConnected,
                [ endpoint |-> "/api/filings", url |-> apiBaseUrl,
                  query |-> ToUpperCase(Trim(value)) ])

clearCache ==
    toolRequest(~(~isConnected /\ ~isDemoMode) /\ ~isDemoMode,
                [ endpoint |-> "/api/cache/clear", url |-> apiBaseUrl, query |-> <<>> ])

ApiCallSettles(call) ==
    /\ call \in apiCalls
    /\ apiCalls' = apiCalls \ {call}
    /\ NoOutput
    /\ UNCHANGED << settingsVars, currentData, analysisHistory, localStorage, panelVars,
                    analyses, started, runLog, batch >>

\* ---- Batch Analysis ----------------------------------------------------
\* textarea.value.split(/[,\n]/)
RECURSIVE split(_, _, _)
split(text, piece, pieces) ==
    IF text = <<>> THEN Append(pieces, piece)
    ELSE IF Head(text) \in {",", "\n"}
         THEN split(Tail(text), <<>>, Append(pieces, piece))
         ELSE split(Tail(text), Append(piece, Head(text)), pieces)

\* ... .map(t => t.trim().toUpperCase()).filter(t => t.length > 0)
batchTickers(text) ==
    LET pieces == split(text, <<>>, <<>>)
        cleaned == [i \in 1..Len(pieces) |-> ToUpperCase(Trim(pieces[i]))]
    IN  SelectSeq(cleaned, LAMBDA t : t # <<>>)

\* the batch after its call of analyzeCompany for the index-th ticker: ran
\* lists the identifiers of the analyses the batch put in flight, awaiting
\* is the run whose request the loop waits for (0: the call returned at once)
batchAfterCall(tickers, index, ran, done) ==
    [ tickers |-> tickers, index |-> index,
      ran |-> IF started' > started THEN Append(ran, runLog'[started']) ELSE ran,
      awaiting |-> IF started' > started /\ ~isDemoMode THEN started' ELSE 0,
      done |-> done ]

\* runBatchAnalysis up to its first await: no ticker, a warning; in demo
\* mode the first ticker is analysed and the handler returns; otherwise
\* the loop starts with the first ticker.  analyzeCompany reads the rest of
\* the form as the user left it.  One batch at a time.
runBatchAnalysis(limit, text, form) ==
    LET tickers == batchTickers(text) IN
    /\ IF batch = Null THEN TRUE ELSE batch.done
    /\ IF tickers = <<>>
       THEN /\ NoOutput
            /\ UNCHANGED << settingsVars, currentData, analysisHistory, localStorage,
                            panelVars, analyses, started, runLog, toolVars >>
       ELSE /\ analyzeCompany(limit, form.useCik, form.scope,
                              IF form.useCik THEN form.cik ELSE tickers[1])
            /\ batch' = batchAfterCall(tickers, 1, <<>>, isDemoMode)

\* the loop goes on: the awaited analyzeCompany has returned and the 1 s
\* pause is over; the next ticker is put into the form and analysed, or
\* the list is exhausted
\* the loop going on to the next ticker without awaiting analyzeCompany
BatchContinues_noAwait(limit, form) ==
    /\ batch # Null
    /\ ~batch.done
    /\ IF batch.index = Len(batch.tickers)
       THEN /\ batch' = [batch EXCEPT !.done = TRUE, !.awaiting = 0]
            /\ NoOutput
            /\ UNCHANGED << settingsVars, currentData, analysisHistory, localStorage,
                            panelVars, analyses, started, runLog, apiCalls >>
       ELSE /\ analyzeCompany(limit, form.useCik, form.scope,
                              IF form.useCik THEN form.cik
                              ELSE batch.tickers[batch.index + 1])
            /\ batch' = batchAfterCall(batch.tickers, batch.index + 1, batch.ran, FALSE)

BatchContinues(limit, form) ==
    /\ batch # Null
    /\ ~batch.done
    /\ \A a \in analyses : a.run # batch.awaiting
    /\ IF batch.index = Len(batch.tickers)
       THEN /\ batch' = [batch EXCEPT !.done = TRUE, !.awaiting = 0]
            /\ NoOutput
            /\ UNCHANGED << settingsVars, currentData, analysisHistory, localStorage,
                            panelVars, analyses, started, runLog, apiCalls >>
       ELSE /\ analyzeCompany(limit, form.useCik, form.scope,
                              IF form.useCik THEN form.cik
                              ELSE batch.tickers[batch.index + 1])
            /\ batch' = batchAfterCall(batch.tickers, batch.index + 1, batch.ran, FALSE)

\* ------------------------------------------------------------------------
\* one analysis, answered with any of the probe reports, and its exports
Next ==
    \/ \E value \in TickerInputs \cup {<<>>} :
            analyzeFromForm(MaxRuns, FALSE, DefaultScope, value)
    \/ \E value \in CikInputs \cup {<<>>} :
            analyzeFromForm(MaxRuns, TRUE, DefaultScope, value)
    \/ \E a \in analyses : DemoTimerFires(a)
    \/ \E a \in analyses, data \in ServerReports : FetchSucceeds(a, data)
    \/ \E a \in analyses : FetchFails(a)
    \/ \E format \in ExportFormats : exportResults(format)
    \/ toggleDemoMode
    \/ \E i \in 1..Len(healthChecks), ok \in BOOLEAN : HealthCheckSettles(i, ok)

Spec == Init /\ [][Next]_vars

\* the keyboard, with demo or server analyses to have a report to export
NextKeys ==
    \/ \E ctrlOrMeta \in BOOLEAN, key \in KeyInputs : keydown(ctrlOrMeta, key)
    \/ \E value \in SessionTickers : analyzeFromForm(MaxRuns, FALSE, DefaultScope, value)
    \/ \E a \in analyses : DemoTimerFires(a)
    \/ \E a \in analyses : FetchSucceeds(a, sessionReport(a.identifier))
    \/ \E a \in analyses : FetchFails(a)
    \/ \E i \in 1..Len(healthChecks), ok \in BOOLEAN : HealthCheckSettles(i, ok)

SpecKeys == Init /\ [][NextKeys]_vars

\* batch analyses of two tickers, with the demo mode switch
NextBatch ==
    \/ \E text \in BatchInputs, form \in BatchForms :
            runBatchAnalysis(MaxSessionRuns, text, form)
    \/ \E form \in BatchForms : BatchContinues(MaxSessionRuns, form)
    \/ \E a \in analyses : DemoTimerFires(a)
    \/ \E a \in analyses : FetchSucceeds(a, sessionReport(a.identifier))
    \/ \E a \in analyses : FetchFails(a)
    \/ toggleDemoMode
    \/ \E i \in 1..Len(healthChecks), ok \in BOOLEAN : HealthCheckSettles(i, ok)

SpecBatch == Init /\ [][NextBatch]_vars

\* every handler that talks to the server: analysis from the form and in
\* a batch, CIK search, filings, cache, connection test and health check
NextTools ==
    \/ \E text \in BatchInputs, form \in ToolForms :
            runBatchAnalysis(MaxRuns, text, form)
    \/ \E form \in ToolForms : BatchContinues(MaxRuns, form)
    \/ \E value \in SessionTickers :
            analyzeFromForm(MaxRuns, FALSE, DefaultScope, value)
    \/ \E a \in analyses : DemoTimerFires(a)
    \/ \E a \in analyses : FetchSucceeds(a, sessionReport(a.identifier))
    \/ \E a \in analyses : FetchFails(a)
    \/ toggleDemoMode
    \/ \E i \in 1..Len(healthChecks), ok \in BOOLEAN : HealthCheckSettles(i, ok)
    \/ \E urlValue \in ToolUrlInputs : saveConnectionSettings(urlValue, <<>>)
    \/ testConnection
    \/ \E term \in SearchTerms : searchCIK(term)
    \/ \E value \in SessionTickers : listFilings(value)
    \/ clearCache
    \/ \E call \in apiCalls : ApiCallSettles(call)

SpecTools == Init /\ [][NextTools]_vars

\* what saveSettings left in localStorage on an earlier visit: nothing, a
\* server with both modes off, or no server with both modes on
StoredSettings ==
    { EmptyObj,
      saveSettings(EmptyObj, <<"h","t","t","p",":","/","/","t">>, 45, FALSE, FALSE),
      saveSettings(EmptyObj, <<>>, 30, TRUE, TRUE) }

InitSettings ==
    \E config \in SettingsConfigs, stored \in StoredSettings : InitFrom(config, stored)

\* the settings: the connection modal and the two mode switches
NextSettings ==
    \/ \E urlValue \in UrlInputs, timeoutValue \in TimeoutInputs :
            saveConnectionSettings(urlValue, timeoutValue)
    \/ toggleDarkMode
    \/ toggleDemoMode
    \/ \E i \in 1..Len(healthChecks), ok \in BOOLEAN : HealthCheckSettles(i, ok)

SpecSettings == InitSettings /\ [][NextSettings]_vars

\* a session of several analyses of two companies, one entered by ticker
\* and one by CIK, where the server answers each request with the report
\* of the company asked for, with null, or not at all
NextSession ==
    \/ \E value \in SessionTickers, scope \in ScopeInputs :
            analyzeFromForm(MaxSessionRuns, FALSE, scope, value)
    \/ \E value \in CikInputs :
            analyzeFromForm(MaxSessionRuns, TRUE, DefaultScope, value)
    \/ \E a \in analyses : DemoTimerFires(a)
    \/ \E a \in analyses : FetchSucceeds(a, sessionReport(a.identifier))
    \/ \E a \in analyses : ResponseHandlingThrows(a)
    \/ \E a \in analyses : FetchFails(a)
    \/ toggleDemoMode
    \/ \E i \in 1..Len(healthChecks), ok \in BOOLEAN : HealthCheckSettles(i, ok)

SpecSession == Init /\ [][NextSession]_vars

\* ========================================================================
\* Properties
\* ========================================================================
\* the report on screen is the one held in currentData
Shown == results # Null /\ ~resultsHidden
CardShown(name) == Shown /\ name \in DOMAIN results.models
HtmlExported == download # Null /\ download.format = "html"
CsvExported == download # Null /\ download.format = "csv"
HtmlRowWritten(name) == HtmlExported /\ name \in DOMAIN download.content.rows
ScoreOf(name, field) == currentData.models[name][field]
HasScore(name, field) ==
    /\ currentData # Null
    /\ Has(currentData, "models")
    /\ Has(currentData.models, name)
    /\ Has(currentData.models[name], field)

\* ---- C1 ----
\* C1: a report with a numeric Beneish m_score is shown, in the Models tab
\* and in the HTML export, in the band of the two thresholds: low (unlikely
\* manipulator) for m < -2.22, moderate (grey zone) for -2.22 <= m <= -1.78,
\* high (likely manipulator) only for m > -1.78.
BeneishBand(m) == IF m < -2220 THEN "low" ELSE IF m <= -1780 THEN "moderate" ELSE "high"

BandOfClass(class) ==
    CASE class = "risk-low" -> "low"
      [] class = "risk-high" -> "high"
      [] OTHER -> "moderate"

BandOfBeneishLabel(label) ==
    CASE label = "Unlikely Manipulator" -> "low"
      [] label = "Likely Manipulator" -> "high"
      [] OTHER -> "moderate"

C1_BeneishTwoThresholds ==
    /\ (CardShown("beneish") /\ HasScore("beneish", "m_score")) =>
          /\ BandOfClass(results.models.beneish.valueClass)
                = BeneishBand(ScoreOf("beneish", "m_score"))
          /\ BandOfBeneishLabel(results.models.beneish.label)
                = BeneishBand(ScoreOf("beneish", "m_score"))
    /\ (HtmlRowWritten("beneish") /\ HasScore("beneish", "m_score")) =>
          BandOfBeneishLabel(download.content.rows.beneish.interpretation)
                = BeneishBand(ScoreOf("beneish", "m_score"))

\* ---- C2 ----
\* C2: a numeric Altman z_score is shown as Safe iff z > 2.99, as Distress
\* iff z < 1.81 and as Gray otherwise (so 1.81 and 2.99 themselves are
\* Gray), in the Models tab and in the HTML export.
AltmanZoneOf(z) == IF z > 2990 THEN "Safe" ELSE IF z < 1810 THEN "Distress" ELSE "Gray"

AltmanClassOf(z) ==
    IF z > 2990 THEN "risk-low" ELSE IF z < 1810 THEN "risk-high" ELSE "risk-moderate"

C2_AltmanZones ==
    /\ (CardShown("altman") /\ HasScore("altman", "z_score")) =>
          /\ results.models.altman.label = AltmanZoneOf(ScoreOf("altman", "z_score"))
          /\ results.models.altman.valueClass = AltmanClassOf(ScoreOf("altman", "z_score"))
    /\ (HtmlRowWritten("altman") /\ HasScore("altman", "z_score")) =>
          download.content.rows.altman.interpretation
                = AltmanZoneOf(ScoreOf("altman", "z_score"))

\* a report with z exactly 2.99 is on screen as Gray and has just been
\* exported to HTML
C2_Witness ==
    /\ CardShown("altman")
    /\ HtmlRowWritten("altman")
    /\ HasScore("altman", "z_score")
    /\ ScoreOf("altman", "z_score") = 2990
    /\ results.models.altman.label = "Gray"

\* ---- C3 ----
\* C3: an integer Piotroski f_score in 0..9 is shown as Weak (high risk) for
\* 0..3, Moderate for 4..6 and Strong (low risk) for 7..9, and the Models
\* tab and the HTML export give the same rating.
PiotroskiRatingOf(f) == IF f <= 3 THEN "Weak" ELSE IF f <= 6 THEN "Moderate" ELSE "Strong"

PiotroskiClassOf(f) ==
    IF f <= 3 THEN "risk-high" ELSE IF f <= 6 THEN "risk-moderate" ELSE "risk-low"

FraudTriangleBandOf(rs) == IF rs <= 300 THEN "low" ELSE IF rs <= 600 THEN "moderate" ELSE "high"

BandOfBgClass(class) ==
    CASE class = "bg-low" -> "low"
      [] class = "bg-high" -> "high"
      [] class = "bg-moderate" -> "moderate"
      [] OTHER -> "none"

EnronGenerated ==
    /\ generated # Null
    /\ (Includes(generated.ticker, ENRON) \/ generated.ticker = ENRON_CIK)

C5_EnronScenario ==
    EnronGenerated =>
        /\ generated.models.beneish.m_score = -1420
        /\ CardShown("beneish")
        /\ results.models.beneish.valueClass = "risk-high"
        /\ generated.models.altman.z_score = 1250
        /\ CardShown("altman")
        /\ results.models.altman.label = "Distress"
        /\ generated.overall_risk.level = "CRITICAL"
        /\ results.overview.level = "CRITICAL"
        /\ Len(generated.red_flags) >= 3

\* the demo timer has just produced the report for Enron's CIK
C5_Witness ==
    /\ generated # Null
    /\ generated.ticker = ENRON_CIK
    /\ currentData = generated
    /\ results.header.name = <<"Enron Corporation">>

\* ---- C6 ----
\* C6: in every generated report overall_risk.level is the band of
\* overall_risk.score as a percentage: LOW 0-25, MODERATE 26-50, HIGH 51-75,
\* CRITICAL 76-100.
RiskBandOfPercent(pct) ==
    CASE pct \in 0..25 -> "LOW"
      [] pct \in 26..50 -> "MODERATE"
      [] pct \in 51..75 -> "HIGH"
      [] pct \in 76..100 -> "CRITICAL"
      [] OTHER -> "out of range"

\* thousandths of the score that make a whole percentage
IsWholePercent(score) == score % 10 = 0

C6_LevelMatchesScoreBand ==
    generated # Null =>
        /\ IsWholePercent(generated.overall_risk.score)
        /\ generated.overall_risk.level
              = RiskBandOfPercent(generated.overall_risk.score \div 10)

\* an ordinary (non-Enron) report has just been generated: score 25%, LOW
C6_Witness ==
    /\ generated # Null
    /\ generated.overall_risk.score = 250
    /\ generated.overall_risk.level = "LOW"
    /\ generated.company.name = <<"A","A","P","L">> \o <<" Inc.">>

\* ---- C7 ----
\* C7: whenever three or more of the five models of a generated report are
\* at HIGH or CRITICAL, red_flags holds a composite-level flag on top of the
\* per-model flags.
PerModelFlagTypes ==
    { "EARNINGS_MANIPULATION", "BANKRUPTCY_RISK", "WEAK_FUNDAMENTALS",
      "FRAUD_TRIANGLE", "BENFORD_ANOMALY" }

IsCompositeFlag(flag) == flag.type \notin PerModelFlagTypes

\* the models of the report on screen that the client classifies high
HighModels == { name \in DOMAIN results.models : results.models[name].valueClass = "risk-high" }

C7_CorroborationFlag ==
    (generated # Null /\ Shown /\ Cardinality(HighModels) >= 3) =>
        \E i \in 1..Len(generated.red_flags) : IsCompositeFlag(generated.red_flags[i])

\* ---- C8 ----
\* C8: every generated report has overall_risk.{level, score}, all five
\* entries of models, a red_flags list, the four trends and filings_analyzed.
IsList(value) == DOMAIN value = 1..Len(value)

C8_ReportShape ==
    generated # Null =>
        /\ {"overall_risk", "models", "red_flags", "trends", "filings_analyzed"}
              \subseteq DOMAIN generated
        /\ {"level", "score"} \subseteq DOMAIN generated.overall_risk
        /\ ModelNames \subseteq DOMAIN generated.models
        /\ IsList(generated.red_flags)
        /\ {"revenue_trend", "income_trend", "cash_flow_trend", "debt_trend"}
              \subseteq DOMAIN generated.trends

\* an ordinary report, without red flags, has just been generated
C8_Witness ==
    /\ generated # Null
    /\ generated.red_flags = <<>>
    /\ generated.ticker = <<"A","A","P","L">>
    /\ currentData = generated

\* ---- C9 ----
\* C9: a Piotroski f_score, Beneish m_score, Altman z_score or overall score
\* that is present and 0 is shown as the value 0 on screen and in the CSV
\* export, and that output differs from the one for the same report with
\* the value missing.
WithoutScore(data, name, field) ==
    [ data EXCEPT !.models =
        [ m \in DOMAIN data.models |->
            IF m = name
            THEN [ f \in (DOMAIN data.models[m]) \ {field} |-> data.models[m][f] ]
            ELSE data.models[m] ] ]

WithoutOverallScore(data) ==
    [ data EXCEPT !.overall_risk =
        [ f \in (DOMAIN data.overall_risk) \ {"score"} |-> data.overall_risk[f] ] ]

CsvValue(rows, metric) == rows[CHOOSE i \in 1..Len(rows) : rows[i][1] = metric][2]

ModelScoreFields ==
    { <<"beneish", "m_score", "Beneish M-Score">>,
      <<"altman", "z_score", "Altman Z-Score">>,
      <<"piotroski", "f_score", "Piotroski F-Score">> }

HasOverallScore ==
    /\ currentData # Null
    /\ Has(currentData, "overall_risk")
    /\ Has(currentData.overall_risk, "score")

C9_ZeroIsNotAbsent ==
    /\ \A sf \in ModelScoreFields :
          (HasScore(sf[1], sf[2]) /\ ScoreOf(sf[1], sf[2]) = 0) =>
              /\ CardShown(sf[1]) =>
                    results.models[sf[1]]
                        # displayModels(WithoutScore(currentData, sf[1], sf[2]))[sf[1]]
              /\ CsvExported =>
                    /\ CsvValue(download.content, sf[3]) = ShowNum(0)
                    /\ download.content
                          # convertToCSV(WithoutScore(currentData, sf[1], sf[2]))
    /\ (HasOverallScore /\ currentData.overall_risk.score = 0) =>
          /\ Shown =>
                results.overview # displayOverview(WithoutOverallScore(currentData))
          /\ CsvExported =>
                /\ CsvValue(download.content, "Overall Risk Score") = ShowNum(0)
                /\ download.content # convertToCSV(WithoutOverallScore(currentData))

\* ---- C10 ----
\* C10: a model entry without its score (m_score, z_score, f_score) is shown
\* neither with a number nor with a risk classification, in the Models tab
\* and in the HTML export.
ClassificationLabels ==
    { "Likely Manipulator", "Unlikely Manipulator", "Safe", "Gray", "Distress",
      "Strong", "Moderate", "Weak" }

IsNumberShown(shown) == shown.kind \in {"number", "fixed2", "percent"}

HasEntryWithoutScore(name, field) ==
    /\ currentData # Null
    /\ Has(currentData, "models")
    /\ Has(currentData.models, name)
    /\ ~Has(currentData.models[name], field)

C10_NoScoreNoClassification ==
    \A sf \in ModelScoreFields :
        HasEntryWithoutScore(sf[1], sf[2]) =>
            /\ CardShown(sf[1]) =>
                  /\ ~IsNumberShown(results.models[sf[1]].value)
                  /\ results.models[sf[1]].label \notin ClassificationLabels
            /\ HtmlRowWritten(sf[1]) =>
                  /\ ~IsNumberShown(download.content.rows[sf[1]].score)
                  /\ download.content.rows[sf[1]].interpretation \notin ClassificationLabels

\* ---- C11 ----
\* C11: an analysis is all-or-nothing: when an analyzeCompany run ends with
\* an error alert (error status, network failure, timeout, or an exception
\* while the response is handled), currentData, the results panel and
\* analysisHistory are what they were when that run started.
EndsWithErrorAlert(a) == FetchFails(a) \/ ResponseHandlingThrows(a)

C11_AllOrNothing ==
    [][\A a \in analyses :
          EndsWithErrorAlert(a) =>
              /\ currentData' = a.before.currentData
              /\ resultsHidden' = a.before.resultsHidden
              /\ results' = a.before.results
              /\ analysisHistory' = a.before.analysisHistory]_vars

\* ---- C12 ----
\* C12: once every run of a session has delivered its report, the report in
\* currentData and on screen is that of the run started last, whatever the
\* order in which the runs completed.
AllRunsDelivered == analyses = {} /\ started >= 2 /\ Len(analysisHistory) = started

reportsOf(identifier) == { generateDemoData(identifier), sessionReport(identifier) }

C12_LastStartedWins ==
    AllRunsDelivered =>
        /\ currentData \in reportsOf(runLog[started])
        /\ results \in { displayResults(r) : r \in reportsOf(runLog[started]) }

\* ---- C13 ----
\* C13: an analysis asked for with a number of years outside 1..10 is
\* rejected before it starts: that call of analyzeCompany puts neither a
\* request nor a demo timer in flight.
C13_ScopeValidated ==
    [][\A useCik \in BOOLEAN, value \in SessionTickers \cup CikInputs,
          scope \in ScopeInputs :
            (scope \notin 1..10 /\ analyzeCompany(MaxSessionRuns, useCik, scope, value)) =>
                (analyses' = analyses /\ started' = started)]_vars

\* ---- C14 ----
\* C14: when the server answers with the documented success response, the
\* panel shows that response's company name and overall risk level, and
\* the percentage shown is the response's score, within 0..100.
C14_DocumentedResponseShown ==
    (currentData = DocumentedResponse /\ Shown) =>
        /\ results.header.name = DocumentedResponse.data.company.name
        /\ results.overview.level = DocumentedResponse.data.overall_risk.level
        /\ results.overview.score.kind = "percent"
        /\ results.overview.score.pct \in 0..100
        /\ results.overview.score.pct * 1000 - DocumentedResponse.data.overall_risk.score
                \in -500..500

\* ---- C15 ----
\* C15: localStorage overrides config.json: once initializeApp is done (and
\* ever after, since the handlers that change a setting store it at once)
\* each of apiBaseUrl, requestTimeout, isDarkMode and isDemoMode is the
\* value localStorage holds for it, a stored 'false' included.
C15_StorageOverridesConfig ==
    /\ storedText(localStorage, "apiUrl") # <<>> => apiBaseUrl = localStorage.apiUrl
    /\ Has(localStorage, "requestTimeout") =>
            NumToString(requestTimeout) = localStorage.requestTimeout
    /\ Has(localStorage, "darkMode") => BoolString(isDarkMode) = localStorage.darkMode
    /\ Has(localStorage, "demoMode") => BoolString(isDemoMode) = localStorage.demoMode

\* ---- C20 ----
\* C20: whatever the input, the URL normalizeApiUrl returns (here: the one
\* the client holds in apiBaseUrl) has no blank at either end and ends
\* neither with '/' nor with '/api/health', '/api/analyze', '/api/filings'
\* or '/api'.
IsBaseUrl(url) ==
    /\ Trim(url) = url
    /\ ~EndsWith(url, <<"/">>)
    /\ \A i \in 1..Len(suffixesToRemove) : ~EndsWith(url, suffixesToRemove[i])

C20_NormalizedUrlIsBase == IsBaseUrl(apiBaseUrl)

\* ---- C18 ----
\* C18: each documented shortcut does its documented action: Ctrl+S exports
\* the report as JSON, Ctrl+P prints, Ctrl+D flips isDarkMode and Ctrl+M
\* flips isDemoMode (so that pressing either twice restores the flag), and
\* after a flip localStorage holds the flag's new value.
C18_ShortcutsDoTheirAction ==
    [][/\ (keydown(TRUE, <<"s">>) /\ currentData # Null) =>
              /\ download' # Null
              /\ download'.format = "json"
              /\ download'.content = exportContent("json", currentData)
       /\ keydown(TRUE, <<"p">>) => printed'
       /\ keydown(TRUE, <<"d">>) =>
              /\ isDarkMode' = ~isDarkMode
              /\ isDemoMode' = isDemoMode
              /\ localStorage'.darkMode = BoolString(isDarkMode')
              /\ localStorage'.demoMode = BoolString(isDemoMode')
       /\ keydown(TRUE, <<"m">>) =>
              /\ isDemoMode' = ~isDemoMode
              /\ isDarkMode' = isDarkMode
              /\ localStorage'.darkMode = BoolString(isDarkMode')
              /\ localStorage'.demoMode = BoolString(isDemoMode')]_vars

\* a JSON export in dark mode: Ctrl+D, and later Ctrl+S with a report loaded
C18_Witness ==
    /\ download # Null
    /\ download.format = "json"
    /\ isDarkMode
    /\ Has(localStorage, "darkMode")
    /\ localStorage.darkMode = "true"

\* what an earlier visit left under 'analysisHistory': nothing, or a full
\* history of demo analyses of two tickers in turn
StoredHistory ==
    [ k \in 1..HistoryLimit |->
        IF k % 2 = 1
        THEN historyEntry(<<"A","A","P","L">>, generateDemoData(<<"A","A","P","L">>))
        ELSE historyEntry(<<"M","S","F","T">>, generateDemoData(<<"M","S","F","T">>)) ]
InitHistory ==
    \E config \in ConfigFiles,
       stored \in { EmptyObj,
                    SetProp(EmptyObj, "analysisHistory", JSONstringify(StoredHistory)) } :
        InitFrom(config, stored)

\* analyses, the history cleared, the page loaded again
NextHistory ==
    \/ \E value \in SessionTickers :
            analyzeFromForm(MaxRuns, FALSE, DefaultScope, value)
    \/ \E a \in analyses : DemoTimerFires(a)
    \/ \E a \in analyses : FetchSucceeds(a, sessionReport(a.identifier))
    \/ \E a \in analyses : FetchFails(a)
    \/ clearHistory
    \/ \E config \in ConfigFiles : reload(config)
    \/ toggleDemoMode
    \/ \E i \in 1..Len(healthChecks), ok \in BOOLEAN : HealthCheckSettles(i, ok)

SpecHistory == InitHistory /\ [][NextHistory]_vars

\* rerunAnalysis, for the entry clicked in the history list: an identifier
\* of 10 characters starting with '0' goes to the #cik input and checks
\* #use-cik, any other goes to the #ticker input and unchecks it
rerunAnalysis(limit, scope, index) ==
    /\ index \in 1..Len(analysisHistory)
    /\ analyzeCompany(limit,
                      /\ analysisHistory[index].identifier # <<>>
                      /\ Head(analysisHistory[index].identifier) = "0"
                      /\ Len(analysisHistory[index].identifier) = 10,
                      scope, analysisHistory[index].identifier)
    /\ UNCHANGED batch

\* a CIK typed without its leading zeros
ShortCiks == { <<"1","0","2","4","4","0","1">> }

\* analyses of a ticker and of a CIK, reruns from the history, exports
NextRerun ==
    \/ \E value \in SessionTickers :
            analyzeFromForm(MaxSessionRuns, FALSE, DefaultScope, value)
    \/ \E value \in ShortCiks :
            analyzeFromForm(MaxSessionRuns, TRUE, DefaultScope, value)
    \/ \E index \in 1..Len(analysisHistory) :
            rerunAnalysis(MaxSessionRuns, DefaultScope, index)
    \/ \E a \in analyses : DemoTimerFires(a)
    \/ \E a \in analyses : FetchSucceeds(a, sessionReport(a.identifier))
    \/ \E a \in analyses : FetchFails(a)
    \/ \E format \in ExportFormats : exportResults(format)
    \/ toggleDemoMode
    \/ \E i \in 1..Len(healthChecks), ok \in BOOLEAN : HealthCheckSettles(i, ok)

SpecRerun == Init /\ [][NextRerun]_vars

\* analyses from a form that holds a ticker, a CIK, blanks or nothing; the
\* page printed in between
NextForm ==
    \/ \E value \in SessionTickers \cup { <<" ">> } :
            analyzeFromForm(MaxRuns, FALSE, DefaultScope, value)
    \/ \E value \in CikInputs \cup { <<>> } :
            analyzeFromForm(MaxRuns, TRUE, DefaultScope, value)
    \/ \E a \in analyses : DemoTimerFires(a)
    \/ \E a \in analyses : FetchSucceeds(a, sessionReport(a.identifier))
    \/ \E a \in analyses : FetchFails(a)
    \/ printReport
    \/ toggleDemoMode
    \/ \E i \in 1..Len(healthChecks), ok \in BOOLEAN : HealthCheckSettles(i, ok)

SpecForm == Init /\ [][NextForm]_vars

\* the connection modal in use while analyses run: test or save an address,
\* switch demo mode, analyse a ticker
NextConnection ==
    \/ \E urlValue \in TestUrlInputs : testConnectionFromModal(urlValue)
    \/ \E urlValue \in TestUrlInputs : saveConnectionSettings(urlValue, <<>>)
    \/ testConnection
    \/ toggleDemoMode
    \/ \E i \in 1..Len(healthChecks), ok \in BOOLEAN : HealthCheckSettles(i, ok)
    \/ \E value \in SessionTickers :
            analyzeFromForm(MaxRuns, FALSE, DefaultScope, value)
    \/ \E a \in analyses : DemoTimerFires(a)
    \/ \E a \in analyses : FetchSucceeds(a, sessionReport(a.identifier))
    \/ \E a \in analyses : FetchFails(a)

SpecConnection == Init /\ [][NextConnection]_vars

\* ---- C16 ----
\* C16: while demo mode is on, no handler starts a request to the server:
\* a step that begins and ends in demo mode puts no /api/analyze request,
\* no /api/health request and no search, filings or cache request in flight.
C16_DemoModeSendsNothing ==
    [][(isDemoMode /\ isDemoMode') =>
          /\ { a \in analyses' : a.kind = "fetch" } \subseteq analyses
          /\ Len(healthChecks') <= Len(healthChecks)
          /\ apiCalls' \subseteq apiCalls]_vars

\* a batch started in demo mode, its one analysis waiting for the demo timer
C16_Witness ==
    /\ isDemoMode
    /\ IF batch = Null THEN FALSE ELSE batch.done /\ batch.ran # <<>>
    /\ \E a \in analyses : a.kind = "demo"

\* ---- C17 ----
\* C17: a batch analyses every ticker entered: when runBatchAnalysis is
\* through, the analyses it put in flight are those of the tickers of the
\* list, one each, in the order entered.
C17_BatchAnalysesEveryTicker ==
    IF batch = Null THEN TRUE ELSE batch.done => batch.ran = batch.tickers

\* ---- C21 ----
\* C21: normalizeApiUrl is idempotent: the server address the application
\* holds, which normalizeApiUrl produced, is left unchanged when it is
\* normalized again, as start-up does with the stored address.
C21_NormalizeIdempotent == normalizeApiUrl(apiBaseUrl) = apiBaseUrl

\* ---- C22 ----
\* C22: with demo mode off, isConnected holds only if the /api/health
\* request that completed last succeeded and was made against the present
\* apiBaseUrl, which is then not empty.
C22_ConnectedMeansHealthy ==
    (~isDemoMode /\ isConnected) =>
        IF lastHealth = Null THEN FALSE
        ELSE lastHealth.ok /\ lastHealth.url = apiBaseUrl /\ apiBaseUrl # <<>>

\* ---- C23 ----
\* C23: testConnectionFromModal changes apiBaseUrl only if the health check
\* of the entered address succeeds: a test that ends at once (demo mode, or
\* an empty address) leaves apiBaseUrl as it was, a test whose check fails
\* puts back the address from before the test, and no /api/analyze request
\* goes to an entered address whose check is still in flight.
C23_TestRestoresUrl ==
    [][/\ \A urlValue \in TestUrlInputs :
             ( /\ testConnectionFromModal(urlValue)
               /\ (isDemoMode \/ normalizeApiUrl(urlValue) = <<>>) )
             => apiBaseUrl' = apiBaseUrl
       /\ \A i \in 1..Len(healthChecks) :
             (healthChecks[i].modal /\ HealthCheckSettles(i, FALSE))
             => apiBaseUrl' = healthChecks[i].tempUrl
       /\ \A a \in analyses' \ analyses :
             a.kind = "fetch" =>
                ~ \E i \in 1..Len(healthChecks) :
                     /\ healthChecks[i].modal
                     /\ healthChecks[i].url = a.url
                     /\ healthChecks[i].url # healthChecks[i].tempUrl]_vars

C25_HistoryBoundedNewestFirstStored ==
    /\ [](/\ Len(analysisHistory) <= HistoryLimit
          /\ IF Has(localStorage, "analysisHistory")
             THEN localStorage.analysisHistory = JSONstringify(analysisHistory)
             ELSE analysisHistory = <<>>)
    /\ [][analysisHistory' # analysisHistory =>
            \/ analysisHistory' = <<>>
            \/ /\ Len(analysisHistory') =
                    IF Len(analysisHistory) < HistoryLimit
                    THEN Len(analysisHistory) + 1 ELSE HistoryLimit
               /\ Tail(analysisHistory') =
                    SubSeq(analysisHistory, 1, Len(analysisHistory') - 1)
               /\ \E a \in analyses \ analyses' :
                    Head(analysisHistory').identifier = a.identifier]_vars

\* a full history took one more entry: the oldest was dropped
C25_Witness ==
    /\ Len(analysisHistory) = HistoryLimit
    /\ analysisHistory # StoredHistory
    /\ Tail(analysisHistory) = SubSeq(StoredHistory, 1, HistoryLimit - 1)
    /\ localStorage.analysisHistory = JSONstringify(analysisHistory)

\* ---- C26 ----
\* C26: the loading indicator is hidden only when no analysis is in flight:
\* while any run of analyzeCompany awaits its demo timer or its answer, the
\* indicator is visible.
C26_LoadingWhileInFlight == analyses # {} => ~loadingHidden

\* ---- C27 ----
\* C27: whenever exportResults hands out a file, the file is made from the
\* report of the analysis started last, and that report is the one the
\* results panel shows; after a failed analysis no file with the report of
\* an earlier company comes out.
C27_ExportIsLatestReport ==
    download # Null =>
        /\ started > 0
        /\ currentData \in reportsOf(runLog[started])
        /\ download.content = exportContent(download.format, currentData)
        /\ ~resultsHidden
        /\ results = displayResults(currentData)

\* ---- C29 ----
\* C29: rerunAnalysis repeats the analysis that made the history entry: the
\* run it starts has the entry's identifier, and its request names it in the
\* mode it was entered in, "cik" for a CIK typed without leading zeros and
\* "ticker" for a ticker.
C29_RerunRepeatsOriginal ==
    [][\A index \in 1..Len(analysisHistory) :
          rerunAnalysis(MaxSessionRuns, DefaultScope, index) =>
             \A a \in analyses' \ analyses :
                /\ a.identifier = analysisHistory[index].identifier
                /\ a.kind = "fetch" =>
                      a.param = IF analysisHistory[index].identifier \in
                                      { formIdentifier(TRUE, value) : value \in ShortCiks }
                                THEN "cik" ELSE "ticker"]_vars

\* ---- C28 ----
\* C28, as stated: analyzeCompany called with an empty identifier, or with
\* demo mode off while not connected, sends no request, generates no
\* report, leaves currentData and analysisHistory unchanged, and ends with
\* the loading indicator hidden.
C28_RejectedCallEndsHidden ==
    [][\A useCik \in BOOLEAN, value \in SessionTickers \cup CikInputs \cup { <<" ">>, <<>> } :
          ( /\ analyzeFromForm(MaxRuns, useCik, DefaultScope, value)
            /\ (Trim(value) = <<>> \/ (~isDemoMode /\ ~isConnected)) )
          => /\ analyses' = analyses
             /\ healthChecks' = healthChecks
             /\ apiCalls' = apiCalls
             /\ generated' = Null
             /\ currentData' = currentData
             /\ analysisHistory' = analysisHistory
             /\ loadingHidden']_vars

\* C28, amended: such a call sends no request, generates no report and
\* leaves currentData and analysisHistory unchanged; with an empty
\* identifier it leaves the loading indicator as it is, when not connected
\* it hides it, and either way the indicator is hidden afterwards if no
\* analysis is in flight.
C28_RejectedCallSendsNothing ==
    [][\A useCik \in BOOLEAN, value \in SessionTickers \cup CikInputs \cup { <<" ">>, <<>> } :
          ( /\ analyzeFromForm(MaxRuns, useCik, DefaultScope, value)
            /\ (Trim(value) = <<>> \/ (~isDemoMode /\ ~isConnected)) )
          => /\ analyses' = analyses
             /\ healthChecks' = healthChecks
             /\ apiCalls' = apiCalls
             /\ generated' = Null
             /\ currentData' = currentData
             /\ analysisHistory' = analysisHistory
             /\ loadingHidden' = IF Trim(value) = <<>> THEN loadingHidden ELSE TRUE
             /\ analyses = {} => loadingHidden']_vars

\* a report is loaded, the connection was lost, and the call that followed
\* was turned away: the panel is hidden, nothing is in flight
C28_Witness ==
    /\ ~isDemoMode
    /\ ~isConnected
    /\ currentData # Null
    /\ resultsHidden
    /\ loadingHidden
    /\ analyses = {}
    /\ started = 1

====
